---- MODULE Spec2Model ----
(***************************************************************************)
(* Model of the request / rate-limit core of wb_api:                       *)
(*   RateLimiter (src/wb_api/rate_limiter.py) shared by several caller     *)
(*   threads, and BaseAPI._request (src/wb_api/api/base.py) which gates    *)
(*   every transport call through it and classifies the response;          *)
(* and of TaskPoller.wait (src/wb_api/utils/tasks.py), which polls a       *)
(*   task's status with backoff until it completes or times out.           *)
(*                                                                         *)
(* Arithmetic.  The source keeps tokens as a float and refills             *)
(*   elapsed * (rpm / 60.0).  The model keeps the token count in           *)
(*   sixtieths of a token (TokenUnit = 60) and the monotonic clock in      *)
(*   whole seconds, so that the refill of `elapsed` seconds is the integer *)
(*   elapsed * rpm and every comparison of the source is exact.            *)
(***************************************************************************)
EXTENDS Integers, Sequences, FiniteSets, TLC

\* ------------------------------------------------------------------ bounds
NumThreads == 2          \* concurrent callers of one limiter
MaxTime    == 3          \* last reading of the monotonic clock (seconds)
MaxOps     == 3          \* public calls issued in one behaviour
MaxBurst   == 2          \* largest burst a limiter is constructed with
MaxHdr     == 1          \* largest integer carried by a rate-limit header
MaxTimeout == 3          \* largest TaskPoller timeout (seconds)
MaxInterval == 2         \* largest TaskPoller interval and max_interval
MaxDelay   == 1          \* longest check_fn call, and latest return of a sleep
MaxRequests == 2         \* requests made through one client
MaxItems   == 3          \* largest collection a paginating iterator reads
MaxBatch   == 2          \* largest small batch_size an iterator is given

\* ------------------------------------------------------- program constants
TokenUnit  == 60         \* one token, in sixtieths (the 60.0 of rpm / 60.0)
RetryFallback == 1       \* headers.get("x-ratelimit-retry", 1)
PollUnit   == 16         \* clock ticks per second in the wait operations
DefaultMaxInterval == 30 \* TaskPoller.__init__: max_interval = 30 (seconds)
GoodsLimit == 1000       \* iter_goods_with_prices: min(batch_size, 1000)

Threads  == 1..NumThreads
Requesters == {1, 2}     \* the callers that run _request
NoThread == 0            \* the lock is not held
Rpms     == {30, 60}     \* requests_per_minute values a limiter is built with
\* A header of a response: absent, present with a text int() rejects, or
\* present with a decimal literal of value val.
Absent   == [kind |-> "absent", val |-> 0]
Bad      == [kind |-> "bad", val |-> 0]
IntHdr(n) == [kind |-> "int", val |-> n]
HdrVals  == {Absent, Bad} \cup {IntHdr(n) : n \in 0..MaxHdr}
Headers  == [remaining : HdrVals, limit : HdrVals]
NoHeaders == [remaining |-> Absent, limit |-> Absent]
LimiterOps == {"acquire", "try_acquire", "update_from_headers", "get_state"}
RateOps    == {"acquire", "try_acquire", "get_state"}
TransportErrors == {"TimeoutException", "ConnectError", "HTTPError"}
Statuses  == {200, 204, 302, 400, 401, 403, 404, 429, 500}
None == "None"
NoStatus == 0            \* status_code = None; no status read yet
Executors == {1}         \* the caller whose _request is followed in full

\* response.json(): a JSON object with the keys detail, message and error
\* ("" when the key is missing or its value is falsy), any other JSON value,
\* or a body that does not decode.
Obj(d, m, e) == [kind |-> "object", detail |-> d, message |-> m, error |-> e]
ObjectJson == {Obj(d, m, e) : d \in {"", "bad field"}, m \in {"", "msg"},
                             e \in {"", "err"}}
OtherJson  == [kind |-> "value", detail |-> "", message |-> "", error |-> ""]
NotJson    == [kind |-> "undecodable", detail |-> "", message |-> "",
               error |-> ""]
NoData     == [kind |-> "none", detail |-> "", message |-> "", error |-> ""]
\* A response body: what json() gives and what .text gives.
Bodies ==
    {[json |-> j, text |-> "json"] : j \in ObjectJson \cup {OtherJson}}
    \cup {[json |-> NotJson, text |-> x] : x \in {"", "raw"}}
\* A response as _handle_response reads it: status code, the
\* x-ratelimit-retry header, body.
Responses == [status : Statuses, retry : HdrVals, body : Bodies]
NoResponse == [status |-> NoStatus, retry |-> Absent,
               body |-> [json |-> NotJson, text |-> ""]]
\* The response of a given status with an error object and no retry header.
PlainResponse(status) ==
    [status |-> status, retry |-> Absent,
     body |-> [json |-> Obj("bad field", "", ""), text |-> "json"]]

\* What _request returns: None, the decoded body, or the body's text.
Unset        == [kind |-> "unset", json |-> NoData, text |-> ""]
PyNone       == [kind |-> "None", json |-> NoData, text |-> ""]
JsonValue(j) == [kind |-> "json", json |-> j, text |-> ""]
TextValue(x) == [kind |-> "text", json |-> NoData, text |-> x]

\* WBAPIError.__init__: the fields an error of the library carries.
WBAPIError(message, status_code, response) ==
    [message |-> message, status_code |-> status_code, response |-> response,
     retry_after |-> <<>>, value |-> Unset]
\* WBRateLimitError.__init__
WBRateLimitError(message, retry_after, status_code, response) ==
    [WBAPIError(message, status_code, response)
        EXCEPT !.retry_after = <<retry_after>>]
\* Nothing of the library raised (yet): no fields.
NoExc == WBAPIError("", NoStatus, NoData)
\* _request returned v.
Returned(v) == [NoExc EXCEPT !.value = v]
\* The classes of exceptions.py that derive from WBAPIError.
Taxonomy == {"WBAPIError", "WBAuthError", "WBForbiddenError",
             "WBNotFoundError", "WBRateLimitError", "WBValidationError",
             "WBServerError", "WBTimeoutError", "WBConnectionError",
             "WBTaskTimeoutError", "WBTaskFailedError"}

VARIABLES
    now,          \* time.monotonic(): seconds for the limiter, ticks of
                  \*          1/PollUnit s for the wait operations
    rpm,          \* RateLimiter.rpm
    burst,        \* RateLimiter.burst
    tokens,       \* RateLimiter.tokens, in sixtieths of a token
    last_update,  \* RateLimiter.last_update
    lock,         \* RateLimiter._lock: holder, or NoThread
    th,           \* per caller: the call in progress and its position
    last,         \* the call that completed most recently, with its result
    ops,          \* number of public calls issued so far
    track,        \* history switch: the four histories below are recorded
    grants,       \* history: clock reading of every grant
    fresh,        \* history: no time elapsed and only try_acquire was called
    tryLog,       \* history: results of the try_acquire calls, while fresh
    emptiedAt,    \* history: <<time>> of the last grant if it left tokens < 1
    poller,       \* TaskPoller: the fields __init__ sets on self
    pw,           \* TaskPoller.wait: its position and local variables
    task,         \* TaskPoller.wait: the snapshot check_fn returned last
    waitResult,   \* TaskPoller.wait: what it returned or raised
    calls,        \* history: number of check_fn calls made
    sleeps,       \* history: number of time.sleep calls made
    terminalAt,   \* history: index of the call that returned a terminal
                  \*          status, 0 while there is none
    via,          \* the wait operation that was called
    progress,     \* history: the on_progress calls made (their number and
                  \*          the snapshot passed last)
    checkRaised,  \* history: the error check_fn raised, "" while none
    pools,        \* WildberriesClient._rate_limiters: per category, the
                  \*          tokens (in sixtieths) and burst of its limiter
    sandbox,      \* WildberriesClient.sandbox
    requested,    \* history: the module that made the last request
    pager,        \* a paginating iterator: its arguments and locals, the
                  \*          server's collection, and as history the
                  \*          requests made and the items yielded
    twin          \* a RateLimiter and an AsyncRateLimiter given the same
                  \*          calls at the same clock readings

limVars   == <<rpm, burst, tokens, last_update, lock>>
histVars  == <<track, grants, fresh, tryLog, emptiedAt>>
pollVars  == <<poller, pw, task, waitResult, calls, sleeps, terminalAt,
               via, progress, checkRaised>>
clientVars == <<pools, sandbox, requested>>
moreVars  == <<pager, twin>>
\* What the limiter's and the executor's steps leave alone.
sideVars  == <<pollVars, clientVars, moreVars>>
reqVars   == <<rpm, burst, tokens, last_update, lock, th, last, ops,
               track, grants, fresh, tryLog, emptiedAt>>
vars      == <<now, rpm, burst, tokens, last_update, lock, th, last, ops,
               track, grants, fresh, tryLog, emptiedAt,
               poller, pw, task, waitResult, calls, sleeps, terminalAt,
               via, progress, checkRaised, pools, sandbox, requested,
               pager, twin>>

Min(a, b) == IF a <= b THEN a ELSE b

RECURSIVE Pow(_, _)
Pow(b, n) == IF n = 0 THEN 1 ELSE b * Pow(b, n - 1)

\* ------------------------------------------------------------ task polling
\* TaskStatus, and the two sets BaseTaskDetails tests it against.
TaskStatus == {"pending", "in_progress", "processing", "completed", "done",
               "success", "error", "failed", "cancelled"}
SuccessStatuses == {"completed", "done", "success"}
FailureStatuses == {"error", "failed", "cancelled"}
\* BaseTaskDetails.errors: lists of error records (two distinct records).
ErrorLists == {<<>>, <<"e1", "e2">>, <<"e2", "e1">>}
\* A BaseTaskDetails as check_fn returns it.
Snapshots == [status : TaskStatus, errors_count : {0, 1}, errors : ErrorLists]
NoTask == [status |-> "none", errors_count |-> 0, errors |-> <<>>]
TaskIds == {"task-1", "task-2"}
\* The wait operations read the clock in ticks of 1/PollUnit second, fine
\* enough for every interval a backoff by 1.5 produces within the bounds;
\* the limiter's specifications read it in whole seconds.
Seconds(n) == PollUnit * n
\* A backoff factor num/den.
Ratio(n, d) == [num |-> n, den |-> d]
\* TaskPoller.__init__: backoff_factor = 1.5, max_interval = 30.
DefaultBackoffFactor == Ratio(3, 2)
\* backoff_factor values a poller is built with: 1, 1.5 and 2.
Factors == {Ratio(1, 1), DefaultBackoffFactor, Ratio(2, 1)}
Timeouts == {Seconds(n) : n \in 0..MaxTimeout}
Intervals == {Seconds(n) : n \in 1..MaxInterval}
MaxIntervals == Intervals \cup {Seconds(DefaultMaxInterval)}
\* How long a check_fn call takes, and how late a sleep returns.
Delays == {Seconds(n) : n \in 0..MaxDelay}
\* TaskPoller.__init__
TaskPollerInit(task_id, timeout, interval, backoff_factor, max_interval) ==
    [task_id |-> task_id, timeout |-> timeout, interval |-> interval,
     backoff_factor |-> backoff_factor, max_interval |-> max_interval]
\* The pollers the model builds.
Pollers == {TaskPollerInit(i, t, v, f, m) :
               i \in TaskIds, t \in Timeouts, v \in Intervals,
               f \in Factors, m \in MaxIntervals}
NoPoller == TaskPollerInit("", 0, 0, Ratio(0, 1), 0)

\* Mutant: the one-shot wait polls without backoff.
WaitForTask_NoBackoff(task_id, timeout, interval) ==
    TaskPollerInit(task_id, timeout, interval, Ratio(1, 1),
                   Seconds(DefaultMaxInterval))

\* wait_for_task: poller = TaskPoller(check_fn, task_id, timeout, interval)
WaitForTask(task_id, timeout, interval) ==
    TaskPollerInit(task_id, timeout, interval, DefaultBackoffFactor,
                   Seconds(DefaultMaxInterval))

\* TaskAPIMixin._wait_for_task, as PricesAPI.wait_for_task calls it with
\* check_fn = self.get_task_details.
MixinWaitForTask(task_id, timeout, interval) ==
    WaitForTask(task_id, timeout, interval)

\* The wait operations built on TaskPoller.
PollerWaits == {"TaskPoller.wait", "wait_for_task",
                "PricesAPI.wait_for_task"}
\* The wait operations of ReportsAPI, built on ReportsAPI._wait_for_task.
ReportsWaits == {"wait_for_warehouse_remains", "wait_for_acceptance_report",
                 "wait_for_paid_storage"}
\* ReportsAPI._wait_for_task(task_id, check_fn, timeout, interval): its
\* arguments; it has no backoff, so the last two fields are not read.
ReportsWaitArgs(task_id, timeout, interval) ==
    [task_id |-> task_id, timeout |-> timeout, interval |-> interval,
     backoff_factor |-> Ratio(1, 1), max_interval |-> interval]
\* A ReportTaskStatus as check_fn returns it: status is any string.
ReportSnapshots == {[status |-> st, errors_count |-> 0, errors |-> <<>>] :
                       st \in TaskStatus}
\* What check_fn may raise.
CheckErrors == {"WBServerError", "KeyError"}

\* wait() not entered: no locals.
NotWaiting == [pc |-> "idle", on_progress |-> FALSE, start_time |-> 0,
               current_interval |-> 0, elapsed |-> 0, sleep_time |-> 0,
               late |-> 0]
\* on_progress has not been called.
NoProgress == [n |-> 0, last |-> NoTask]
\* What wait() has returned or raised: nothing yet.
Running == [kind |-> "running", task_id |-> "", timeout |-> 0,
            status |-> "", errors |-> <<>>, value |-> NoTask]

\* No RateLimitState has been returned.
NoState == [remaining |-> 0, reset_at |-> 0, limit |-> 0, again |-> FALSE]

\* No remaining header has been assigned by the call.
NoCorrection == [set |-> FALSE, r |-> 0, at |-> 0]

\* A caller that is not inside any call.
Idle == [op |-> None, fn |-> None, pc |-> "idle", status |-> NoStatus,
         wake |-> 0, nAcq |-> 0, nGrant |-> 0, nSend |-> 0,
         hdrDone |-> FALSE, result |-> None,
         resp |-> NoResponse, exc |-> NoExc, state |-> NoState,
         corr |-> NoCorrection]

\* RateLimiter.__init__ : tokens = float(burst), last_update = monotonic().
Construct ==
    /\ now = 0
    /\ rpm \in Rpms
    /\ burst \in 0..MaxBurst
    /\ tokens = TokenUnit * burst
    /\ last_update = now
    /\ lock = NoThread
    /\ th = [t \in Threads |-> Idle]
    /\ last = Idle
    /\ ops = 0
    /\ grants = <<>>
    /\ fresh = TRUE
    /\ tryLog = <<>>
    /\ emptiedAt = <<>>

\* No TaskPoller exists.
NoPolling ==
    /\ poller = NoPoller
    /\ pw = NotWaiting
    /\ task = NoTask
    /\ waitResult = Running
    /\ calls = 0
    /\ sleeps = 0
    /\ terminalAt = 0
    /\ via = ""
    /\ progress = NoProgress
    /\ checkRaised = ""

\* ------------------------------------------------------ WildberriesClient
\* The keys of DOMAINS and of DEFAULT_RATE_LIMITS.
Categories == {"content", "analytics", "prices", "marketplace", "statistics",
               "promotion", "feedbacks", "chat", "supplies", "returns",
               "documents", "finance", "common"}
\* DOMAINS
Domains(c) ==
    CASE c = "content"     -> "content-api.wildberries.ru"
      [] c = "analytics"   -> "seller-analytics-api.wildberries.ru"
      [] c = "prices"      -> "discounts-prices-api.wildberries.ru"
      [] c = "marketplace" -> "marketplace-api.wildberries.ru"
      [] c = "statistics"  -> "statistics-api.wildberries.ru"
      [] c = "promotion"   -> "advert-api.wildberries.ru"
      [] c = "feedbacks"   -> "feedbacks-api.wildberries.ru"
      [] c = "chat"        -> "buyer-chat-api.wildberries.ru"
      [] c = "supplies"    -> "supplies-api.wildberries.ru"
      [] c = "returns"     -> "returns-api.wildberries.ru"
      [] c = "documents"   -> "documents-api.wildberries.ru"
      [] c = "finance"     -> "finance-api.wildberries.ru"
      [] c = "common"      -> "common-api.wildberries.ru"
\* The keys of SANDBOX_DOMAINS.
SandboxCategories == {"content", "prices", "statistics", "promotion",
                      "feedbacks"}
\* SANDBOX_DOMAINS.get(c, default)
SandboxDomains(c, default) ==
    CASE c = "content"    -> "content-api-sandbox.wildberries.ru"
      [] c = "prices"     -> "discounts-prices-api-sandbox.wildberries.ru"
      [] c = "statistics" -> "statistics-api-sandbox.wildberries.ru"
      [] c = "promotion"  -> "advert-api-sandbox.wildberries.ru"
      [] c = "feedbacks"  -> "feedbacks-api-sandbox.wildberries.ru"
      [] OTHER            -> default
\* DEFAULT_RATE_LIMITS[c]["rpm"] and ["burst"]
DefaultRpm(c) ==
    CASE c \in {"content", "prices", "feedbacks"} -> 100
      [] c = "marketplace" -> 300
      [] OTHER -> 60
DefaultBurst(c) ==
    CASE c \in {"content", "prices"} -> 5
      [] c = "marketplace" -> 20
      [] OTHER -> 10
\* The attributes _init_api_modules sets on the client.
Modules == {"content", "prices", "finance", "statistics", "common",
            "marketing", "promotions", "reports"}

\* _init_api_modules: the key of the limiter passed to module m.
ModuleLimiter(m) ==
    CASE m \in {"marketing", "promotions"} -> "promotion"
      [] m = "reports" -> "statistics"
      [] OTHER -> m

\* The `domain` property of module m: the host its requests are sent to.
ModuleDomain(m, sb) ==
    CASE m = "common"  -> Domains("common")
      [] m = "finance" -> Domains("finance")
      [] m = "content" ->
           IF sb THEN SandboxDomains("content", Domains("content"))
           ELSE Domains("content")
      [] m = "prices" ->
           IF sb THEN SandboxDomains("prices", Domains("prices"))
           ELSE Domains("prices")
      [] m = "statistics" ->
           IF sb THEN SandboxDomains("statistics", Domains("statistics"))
           ELSE Domains("statistics")
      [] m \in {"marketing", "promotions"} ->
           IF sb THEN SandboxDomains("promotion", Domains("promotion"))
           ELSE Domains("promotion")
      [] m = "reports" ->
           IF sb THEN SandboxDomains("analytics", Domains("statistics"))
           ELSE Domains("analytics")

\* The category a host belongs to.
HostCategory(host) ==
    CHOOSE c \in Categories :
        host \in {Domains(c), SandboxDomains(c, Domains(c))}

\* WildberriesClient.__init__: one RateLimiter(rpm, burst) per category.
NewPools ==
    [c \in Categories |->
        [tokens |-> TokenUnit * DefaultBurst(c), burst |-> DefaultBurst(c)]]

\* No iterator has been started.  updated_at is None or a text; nm_id is
\* 0 where the code holds None or 0, which it treats alike.
NoPager == [fn |-> "", pc |-> "idle", arg |-> 0, batch_size |-> 0,
            offset |-> 0, updated_at |-> None, nm_id |-> 0, coll |-> <<>>,
            requests |-> <<>>, yielded |-> <<>>]

\* No pair of limiters is compared.
NoTwin == <<>>

\* Neither is in use.
Unused == pager = NoPager /\ twin = NoTwin

\* No WildberriesClient exists.
NoClient ==
    /\ pools = <<>>
    /\ sandbox = FALSE
    /\ requested = ""
    /\ Unused

Init     == Construct /\ track = FALSE /\ NoPolling /\ NoClient
InitRate == Construct /\ track = TRUE /\ NoPolling /\ NoClient

\* A TaskPoller has been constructed and wait() is about to be called; the
\* limiter plays no part.
InitPoll ==
    /\ Construct /\ track = FALSE /\ rpm = 60 /\ burst = 1
    /\ NoClient
    /\ via \in PollerWaits
    /\ poller \in
          IF via = "TaskPoller.wait" THEN Pollers
          ELSE IF via = "wait_for_task"
          THEN {WaitForTask(i, t, v) :
                   i \in TaskIds, t \in Timeouts, v \in Intervals}
          ELSE {MixinWaitForTask(i, t, v) :
                   i \in TaskIds, t \in Timeouts, v \in Intervals}
    /\ pw \in {[NotWaiting EXCEPT !.pc = "wait", !.on_progress = cb] :
                  cb \in BOOLEAN}
    /\ task = NoTask
    /\ waitResult = Running
    /\ calls = 0
    /\ sleeps = 0
    /\ terminalAt = 0
    /\ progress = NoProgress
    /\ checkRaised = ""

\* One of the three report waits is about to run ReportsAPI._wait_for_task.
InitReports ==
    /\ Construct /\ track = FALSE /\ rpm = 60 /\ burst = 1
    /\ NoClient
    /\ via \in ReportsWaits
    /\ poller \in {ReportsWaitArgs(i, t, v) :
                      i \in TaskIds, t \in Timeouts, v \in Intervals}
    /\ pw = [NotWaiting EXCEPT !.pc = "wait"]
    /\ task = NoTask
    /\ waitResult = Running
    /\ calls = 0
    /\ sleeps = 0
    /\ terminalAt = 0
    /\ progress = NoProgress
    /\ checkRaised = ""

\* ------------------------------------------------------------ pure helpers
\* Mutant: the critical section is entered without mutual exclusion.
LockFree_NoMutex(t) == TRUE

\* Mutant: acquire gives the lock up for the time it sleeps.
LockFree_WhileSleeping(t) ==
    IF lock = NoThread THEN TRUE ELSE th[lock].pc = "sleep"

\* `with self._lock:` can be entered by t only when nobody holds the lock.
LockFree(t) == lock = NoThread

\* Mutant: the refill is not capped at burst.
Refilled_NoCap(tok, cap, rate, elapsed) == tok + elapsed * rate

\* Mutant: elapsed time is not credited.
Refilled_NoCredit(tok, cap, rate, elapsed) == Min(TokenUnit * cap, tok)

\* _refill: min(burst, tokens + elapsed * (rpm / 60.0)), in sixtieths.
Refilled(tok, cap, rate, elapsed) == Min(TokenUnit * cap, tok + elapsed * rate)

\* Mutant: a grant needs more than one token.
MustWait_OffByOne(tok) == tok <= TokenUnit

\* acquire: the loop test `self.tokens < 1`; try_acquire: its negation
\* `self.tokens >= 1`.
MustWait(tok) == tok < TokenUnit

\* Mutant: a grant takes two tokens.
Decremented_Twice(tok) == tok - 2 * TokenUnit

\* A grant: `self.tokens -= 1`.
Decremented(tok) == tok - TokenUnit

\* sleep_time = 60.0 / rpm, in seconds (Rpms divide 60).
SleepTime(rate) == TokenUnit \div rate

\* int(header value): an integer literal parses, anything else raises.
Parses(v) == v.kind = "int"

\* Mutant: the reported remaining quota is added instead of assigned.
TokensFromHeader_Adds(tok, v) ==
    IF v = Absent THEN tok ELSE tok + TokenUnit * v.val

\* update_from_headers: tokens after the x-ratelimit-remaining branch.
TokensFromHeader(tok, v) == IF v = Absent THEN tok ELSE TokenUnit * v.val

\* update_from_headers: burst after the x-ratelimit-limit branch.
BurstFromHeader(cap, v) == IF v = Absent THEN cap ELSE v.val

\* update_from_headers: "ok" when it returns, else the exception that leaves
\* it (int() of a malformed value raises ValueError).
HeadersOutcome(h) ==
    IF /\ h.remaining # Absent => Parses(h.remaining)
       /\ h.limit # Absent => Parses(h.limit)
    THEN "ok" ELSE "ValueError"

\* Where a caller goes when acquire() has returned: _request continues with
\* the transport call, a direct caller is done.
AfterAcquire(op) == IF op = "_request" THEN "transport" ELSE "done"

\* Mutant: a transport timeout is retried.
AfterTransport_Retry(outcome) ==
    IF outcome = "TimeoutException" THEN "transport"
    ELSE IF outcome \in TransportErrors THEN "done" ELSE "lock"

\* Mutant: the response is classified without the header correction.
AfterTransport_SkipHeaders(outcome) ==
    IF outcome \in TransportErrors THEN "done" ELSE "classify"

\* Where _request goes when the transport call has ended with `outcome`:
\* each httpx exception is re-raised as a library error, a response goes on
\* to update_from_headers.
AfterTransport(outcome) ==
    IF outcome \in TransportErrors THEN "done" ELSE "lock"

\* Where a caller goes when update_from_headers() has returned.
AfterHeaders(op) == IF op = "_request" THEN "classify" ELSE "done"

\* Mutant: every transport failure becomes the generic error.
TransportError_Generic(outcome) == "WBAPIError"

\* The library error _request raises for an httpx transport exception.
TransportError(outcome) ==
    CASE outcome = "TimeoutException" -> "WBTimeoutError"
      [] outcome = "ConnectError"     -> "WBConnectionError"
      [] OTHER                        -> "WBAPIError"

\* The message _request gives the error it raises for a transport exception.
TransportMessage(outcome) ==
    CASE outcome = "TimeoutException" -> "Request timeout: e"
      [] outcome = "ConnectError"     -> "Connection error: e"
      [] OTHER                        -> "HTTP error: e"

\* httpx.Response.is_success
IsSuccess(status) == 200 <= status /\ status <= 299

\* _handle_response: the error raised for a status, "ok" when it returns.
HandleResponse(status) ==
    CASE IsSuccess(status) -> "ok"
      [] status = 400 -> "WBValidationError"
      [] status = 401 -> "WBAuthError"
      [] status = 403 -> "WBForbiddenError"
      [] status = 404 -> "WBNotFoundError"
      [] status = 429 -> "WBRateLimitError"
      [] status >= 500 -> "WBServerError"
      [] OTHER -> "WBAPIError"

\* _handle_response: error_data, the decoded body, or the text wrapped as
\* {"detail": response.text} when json() raises.
ErrorData(body) ==
    IF body.json.kind = "undecodable" THEN Obj(body.text, "", "")
    ELSE body.json

\* str(error_data)
Str(d) == "{'detail': '" \o d.detail \o "', 'message': '" \o d.message
          \o "', 'error': '" \o d.error \o "'}"

\* _handle_response: the `or` chain over error_data.get(...).
Message(d) ==
    IF d.detail # "" THEN d.detail
    ELSE IF d.message # "" THEN d.message
    ELSE IF d.error # "" THEN d.error
    ELSE Str(d)

\* float(response.headers.get("x-ratelimit-retry", 1)) of a value that
\* float() accepts.
RetryAfter(v) == IF v = Absent THEN RetryFallback ELSE v.val

\* _request after a 2xx: None for 204, else json(), else the text if it is
\* not empty, else None.
ReturnValue(r) ==
    IF r.status = 204 THEN PyNone
    ELSE IF r.body.json.kind # "undecodable" THEN JsonValue(r.body.json)
    ELSE IF r.body.text # "" THEN TextValue(r.body.text)
    ELSE PyNone

\* _handle_response and the rest of _request: "ok" when the call returns,
\* else the class of the exception that leaves it.  error_data.get raises
\* AttributeError when the decoded body is not a dict; float() raises
\* ValueError on a retry header that is not a number.
ResponseResult(r) ==
    IF IsSuccess(r.status) THEN "ok"
    ELSE IF ErrorData(r.body).kind # "object" THEN "AttributeError"
    ELSE IF r.status = 429 /\ r.retry # Absent /\ ~Parses(r.retry)
         THEN "ValueError"
    ELSE HandleResponse(r.status)

\* The value returned, or the fields of the library error raised.
ResponseExc(r) ==
    IF ResponseResult(r) = "ok" THEN Returned(ReturnValue(r))
    ELSE IF ResponseResult(r) \notin Taxonomy THEN NoExc
    ELSE IF r.status = 429
         THEN WBRateLimitError(Message(ErrorData(r.body)),
                               RetryAfter(r.retry), 429, ErrorData(r.body))
    ELSE WBAPIError(Message(ErrorData(r.body)), r.status, ErrorData(r.body))


\* Mutant: the limit reported is the rate, not the capacity.
RateLimitState_LimitIsRpm(tok, cap, updated, rate) ==
    [remaining |-> tok \div TokenUnit, reset_at |-> updated + SleepTime(rate),
     limit |-> rate, again |-> FALSE]

\* get_state: RateLimitState(remaining = int(self.tokens), reset_at =
\* self.last_update + 60.0 / self.rpm, limit = self.burst)
RateLimitState(tok, cap, updated, rate) ==
    [remaining |-> tok \div TokenUnit, reset_at |-> updated + SleepTime(rate),
     limit |-> cap, again |-> FALSE]

\* The call r that completed last was a get_state made at time t: its
\* reset_at is t + 60 / rpm.
SameInstant(r, t, rate) ==
    r.fn = "get_state" /\ r.state.reset_at = t + SleepTime(rate)

\* ----------------------------------------------------- TaskPoller helpers
Terminal == SuccessStatuses \cup FailureStatuses

\* Mutant: only the failure statuses end the polling.
IsCompleted_FailuresOnly(status) == status \in FailureStatuses

\* BaseTaskDetails.is_completed
IsCompleted(status) == status \in Terminal

\* Mutant: a task that ended with status error counts as successful.
IsSuccessful_OrError(status) == status \in SuccessStatuses \cup {"error"}

\* BaseTaskDetails.is_successful
IsSuccessful(status) == status \in SuccessStatuses

\* BaseTaskDetails.has_errors
HasErrors(snap) == snap.errors_count > 0 \/ Len(snap.errors) > 0

\* Mutant: the timeout is declared one second early.
TimedOut_Early(elapsed, timeout) == elapsed + PollUnit >= timeout

\* Mutant: the timeout is declared only once it is exceeded.
TimedOut_Late(elapsed, timeout) == elapsed > timeout

\* wait: `if elapsed >= self.timeout`
TimedOut(elapsed, timeout) == elapsed >= timeout

\* Mutant: the sleep is not cut to the time remaining.
SleepFor_NoClamp(current_interval, max_interval, remaining) ==
    Min(current_interval, max_interval)

\* wait: sleep_time = min(min(current_interval, max_interval), remaining)
SleepFor(current_interval, max_interval, remaining) ==
    Min(Min(current_interval, max_interval), remaining)

\* Mutant: the interval is never backed off.
Backoff_None(current_interval, backoff_factor) == current_interval

\* wait: current_interval *= self.backoff_factor
Backoff(current_interval, backoff_factor) ==
    (current_interval * backoff_factor.num) \div backoff_factor.den

\* Mutant: on_progress is skipped for the snapshot that ends the wait.
OnProgress_NonTerminalOnly(prog, on_progress, snap) ==
    IF on_progress /\ ~IsCompleted(snap.status)
    THEN [n |-> prog.n + 1, last |-> snap] ELSE prog

\* wait: `if on_progress: on_progress(task)`
OnProgress(prog, on_progress, snap) ==
    IF on_progress THEN [n |-> prog.n + 1, last |-> snap] ELSE prog

\* Mutant: the records are passed on only when errors_count says so.
FailedErrors_Counted(snap) ==
    IF snap.errors_count > 0 THEN snap.errors ELSE <<>>

\* The errors of the TaskFailedError raised for snap: `task.errors if
\* task.has_errors else None`, stored as `errors or []`.
FailedErrors(snap) == IF HasErrors(snap) THEN snap.errors ELSE <<>>

\* TaskTimeoutError.__init__
TaskTimeoutError(task_id, timeout) ==
    [Running EXCEPT !.kind = "TaskTimeoutError", !.task_id = task_id,
                    !.timeout = timeout]

\* TaskFailedError.__init__
TaskFailedError(task_id, status, errors) ==
    [Running EXCEPT !.kind = "TaskFailedError", !.task_id = task_id,
                    !.status = status, !.errors = errors]

\* ReportTaskStatus.is_completed
ReportIsCompleted(status) == status \in {"completed", "done"}

\* ReportTaskStatus.is_failed
ReportIsFailed(status) == status = "failed"

\* ReportsAPI._wait_for_task: raise TimeoutError(f"Task {task_id} did not
\* complete within {timeout}s. Last status: {status}"), the builtin
\* exception.
BuiltinTimeoutError(task_id, timeout, status) ==
    [Running EXCEPT !.kind = "TimeoutError", !.task_id = task_id,
                    !.timeout = timeout, !.status = status]

\* wait: `return task`
ReturnedTask(snap) == [Running EXCEPT !.kind = "return", !.value = snap]

\* Mutant: an error of check_fn is reported as a failed task.
Propagated_AsTaskFailed(task_id, e) == TaskFailedError(task_id, e, <<>>)

\* wait: check_fn is called outside any try, so its error e leaves wait.
Propagated(task_id, e) == [Running EXCEPT !.kind = e]

\* ------------------------------------------------------------------ actions
\* Caller t moves to position pc with record r; at "done" the call has
\* returned or raised: the record is kept in `last` and t is idle again.
Goto(t, r, pc) ==
    IF pc = "done"
    THEN /\ th' = [th EXCEPT ![t] = Idle]
         /\ last' = [r EXCEPT !.pc = "done"]
    ELSE /\ th' = [th EXCEPT ![t] = [r EXCEPT !.pc = pc]]
         /\ UNCHANGED last

\* The monotonic clock advances; it may do so between any two statements.
Tick ==
    /\ now < MaxTime
    /\ now' = now + 1
    /\ fresh' = FALSE
    /\ UNCHANGED <<sideVars, limVars, th, last, ops, track, grants, tryLog,
                   emptiedAt>>

\* A caller invokes a public method of the limiter, or _request (which
\* begins with self._rate_limiter.acquire()).
Call(t, op) ==
    /\ th[t].pc = "idle"
    /\ ops < MaxOps
    /\ ops' = ops + 1
    /\ th' = [th EXCEPT ![t] =
                [Idle EXCEPT !.op = op,
                             !.fn = IF op = "_request" THEN "acquire" ELSE op,
                             !.pc = "lock"]]
    /\ fresh' = (fresh /\ op = "try_acquire")
    /\ UNCHANGED <<sideVars, now, limVars, last, track, grants, tryLog,
                   emptiedAt>>

\* acquire: enter the lock, _refill(), then the loop test: either start
\* time.sleep(sleep_time) with the lock held, or leave the loop.
AcquireEnter(t) ==
    /\ th[t].pc = "lock" /\ th[t].fn = "acquire"
    /\ LockFree(t)
    /\ lock' = t
    /\ tokens' = Refilled(tokens, burst, rpm, now - last_update)
    /\ last_update' = now
    /\ IF MustWait(tokens')
       THEN Goto(t, [th[t] EXCEPT !.nAcq = @ + 1,
                                  !.wake = now + SleepTime(rpm)], "sleep")
       ELSE Goto(t, [th[t] EXCEPT !.nAcq = @ + 1], "dec")
    /\ UNCHANGED <<sideVars, now, rpm, burst, ops, histVars>>

\* acquire: the sleep returns once sleep_time has elapsed; the loop body
\* calls _refill() and the loop test is made again.
WakeRefill(t) ==
    /\ th[t].pc = "sleep"
    /\ now >= th[t].wake
    /\ tokens' = Refilled(tokens, burst, rpm, now - last_update)
    /\ last_update' = now
    /\ IF MustWait(tokens')
       THEN Goto(t, [th[t] EXCEPT !.wake = now + SleepTime(rpm)], "sleep")
       ELSE Goto(t, [th[t] EXCEPT !.wake = 0], "dec")
    /\ UNCHANGED <<sideVars, now, rpm, burst, lock, ops, histVars>>

\* History kept at a grant (a decrement of tokens by one token).
GrantHistory ==
    /\ grants' = IF track THEN Append(grants, last_update) ELSE grants
    /\ emptiedAt' = IF track /\ tokens' < TokenUnit THEN <<now>> ELSE <<>>

\* acquire: `self.tokens -= 1`, leave the lock, return.
AcquireDec(t) ==
    /\ th[t].pc = "dec"
    /\ tokens' = Decremented(tokens)
    /\ lock' = NoThread
    /\ Goto(t, [th[t] EXCEPT !.nGrant = @ + 1], AfterAcquire(th[t].op))
    /\ GrantHistory
    /\ UNCHANGED <<sideVars, now, rpm, burst, last_update, ops, track, fresh,
                   tryLog>>

\* try_acquire: enter the lock, _refill(), then `if self.tokens >= 1:`;
\* otherwise `return False` and leave the lock.
TryEnter(t) ==
    /\ th[t].pc = "lock" /\ th[t].fn = "try_acquire"
    /\ LockFree(t)
    /\ tokens' = Refilled(tokens, burst, rpm, now - last_update)
    /\ last_update' = now
    /\ IF MustWait(tokens')
       THEN /\ Goto(t, [th[t] EXCEPT !.result = "False"], "done")
            /\ tryLog' = IF track /\ fresh THEN Append(tryLog, FALSE) ELSE tryLog
            /\ UNCHANGED lock
       ELSE /\ Goto(t, th[t], "try_dec")
            /\ lock' = t
            /\ UNCHANGED tryLog
    /\ UNCHANGED <<sideVars, now, rpm, burst, ops, track, grants, fresh,
                   emptiedAt>>

\* try_acquire: `self.tokens -= 1; return True`, leave the lock.
TryDec(t) ==
    /\ th[t].pc = "try_dec"
    /\ tokens' = Decremented(tokens)
    /\ lock' = NoThread
    /\ Goto(t, [th[t] EXCEPT !.nGrant = @ + 1, !.result = "True"], "done")
    /\ tryLog' = IF track /\ fresh THEN Append(tryLog, TRUE) ELSE tryLog
    /\ GrantHistory
    /\ UNCHANGED <<sideVars, now, rpm, burst, last_update, ops, track, fresh>>

\* History of a header correction, kept when histories are recorded: the
\* remaining value r it assigned to the tokens and the clock reading then.
Correction(h, assigned) ==
    IF track /\ assigned /\ h.remaining # Absent
    THEN [set |-> TRUE, r |-> h.remaining.val, at |-> now]
    ELSE NoCorrection

\* update_from_headers(h), whole: under the lock, the remaining branch and
\* then the limit branch; int() raising in a branch ends the method there,
\* with the earlier branch's assignment already made; last_update is not
\* assigned.  Nothing reads the headers before this point, so they are
\* drawn here.
UpdateFromHeaders(t, h) ==
    /\ th[t].pc = "lock" /\ th[t].fn = "update_from_headers"
    /\ LockFree(t)
    /\ LET remOk == h.remaining = Absent \/ Parses(h.remaining)
           limOk == h.limit = Absent \/ Parses(h.limit)
       IN /\ tokens' = IF remOk THEN TokensFromHeader(tokens, h.remaining)
                       ELSE tokens
          /\ burst' = IF remOk /\ limOk THEN BurstFromHeader(burst, h.limit)
                      ELSE burst
          /\ IF HeadersOutcome(h) = "ok"
             THEN Goto(t, [th[t] EXCEPT !.hdrDone = TRUE,
                                        !.corr = Correction(h, remOk)],
                       AfterHeaders(th[t].op))
             ELSE Goto(t, [th[t] EXCEPT !.result = "ValueError",
                                        !.corr = Correction(h, remOk)],
                       "done")
    /\ UNCHANGED <<sideVars, now, rpm, last_update, lock, ops, histVars>>

\* get_state, whole: under the lock, _refill() and the RateLimitState.
\* The state returned is kept when histories are recorded, with the mark
\* `again` when the call before it was a get_state at the same instant.
GetState(t) ==
    /\ th[t].pc = "lock" /\ th[t].fn = "get_state"
    /\ LockFree(t)
    /\ tokens' = Refilled(tokens, burst, rpm, now - last_update)
    /\ last_update' = now
    /\ Goto(t, [th[t] EXCEPT
                  !.result = "RateLimitState",
                  !.state =
                     IF track
                     THEN [RateLimitState(tokens', burst, last_update', rpm)
                             EXCEPT !.again = SameInstant(last, now, rpm)]
                     ELSE NoState],
            "done")
    /\ UNCHANGED <<sideVars, now, rpm, burst, lock, ops, histVars>>

\* _request: self._client.request(...) ends with an httpx exception, which
\* is re-raised as a library error built from a message alone, or with a
\* response, which is passed to update_from_headers.  `status` is the
\* response's status code, NoStatus while nothing has read it.
Sent(t, outcome, status) ==
    /\ th[t].pc = "transport"
    /\ IF outcome \in TransportErrors
       THEN Goto(t, [th[t] EXCEPT !.nSend = @ + 1,
                                  !.result = TransportError(outcome),
                                  !.exc = WBAPIError(TransportMessage(outcome),
                                                     NoStatus, NoData)],
                 AfterTransport(outcome))
       ELSE Goto(t, [th[t] EXCEPT !.nSend = @ + 1,
                                  !.status = status,
                                  !.fn = "update_from_headers"],
                 AfterTransport(outcome))
    /\ UNCHANGED <<sideVars, now, limVars, ops, histVars>>

\* The transport call ends; a response's status is read later.
Transport(t, outcome) == Sent(t, outcome, NoStatus)

\* The transport call ends with a response of the given status.
Receive(t, status) == Sent(t, "response", status)

\* _request: self._handle_response(response), then the body is returned:
\* the call ends with the response r.
Handle(t, r) ==
    /\ th[t].pc = "classify"
    /\ Goto(t, [th[t] EXCEPT !.status = r.status,
                             !.resp = r,
                             !.result = ResponseResult(r),
                             !.exc = ResponseExc(r)], "done")
    /\ UNCHANGED <<sideVars, now, limVars, ops, histVars>>

\* The call ends with a response of which only the status varies.  Nothing
\* reads the response's status before this point, so it is drawn here.
Classify(t, status) == Handle(t, PlainResponse(status))

\* The call ends with the response received: its status is the one read at
\* Receive, its retry header and body are read here for the first time.
Respond(t, r) == th[t].status = r.status /\ Handle(t, r)

\* The one _request call that is followed in full.
Request(t) == last = Idle /\ Call(t, "_request")

\* Concurrent callers of the limiter's four public methods.
Next ==
    \/ Tick
    \/ \E t \in Threads, op \in LimiterOps : Call(t, op)
    \/ \E t \in Threads : AcquireEnter(t)
    \/ \E t \in Threads : WakeRefill(t)
    \/ \E t \in Threads : AcquireDec(t)
    \/ \E t \in Threads : TryEnter(t)
    \/ \E t \in Threads : TryDec(t)
    \/ \E t \in Threads, h \in Headers : UpdateFromHeaders(t, h)
    \/ \E t \in Threads : GetState(t)

Spec == Init /\ [][Next]_vars

\* A limiter that receives no header corrections, with its history recorded.
NextRate ==
    \/ Tick
    \/ \E t \in Threads, op \in RateOps : Call(t, op)
    \/ \E t \in Threads : AcquireEnter(t)
    \/ \E t \in Threads : WakeRefill(t)
    \/ \E t \in Threads : AcquireDec(t)
    \/ \E t \in Threads : TryEnter(t)
    \/ \E t \in Threads : TryDec(t)
    \/ \E t \in Threads : GetState(t)

SpecRate == InitRate /\ [][NextRate]_vars

\* One caller of the four operations of a limiter, the states get_state
\* returns being recorded.
NextState ==
    \/ Tick
    \/ \E t \in Executors, op \in LimiterOps : Call(t, op)
    \/ \E t \in Executors : AcquireEnter(t)
    \/ \E t \in Executors : WakeRefill(t)
    \/ \E t \in Executors : AcquireDec(t)
    \/ \E t \in Executors : TryEnter(t)
    \/ \E t \in Executors : TryDec(t)
    \/ \E t \in Executors, h \in Headers : UpdateFromHeaders(t, h)
    \/ \E t \in Executors : GetState(t)

SpecState == InitRate /\ [][NextState]_vars

\* Concurrent callers of BaseAPI._request on one limiter.
NextRequest ==
    \/ Tick
    \/ \E t \in Requesters : Call(t, "_request")
    \/ \E t \in Requesters : AcquireEnter(t)
    \/ \E t \in Requesters : WakeRefill(t)
    \/ \E t \in Requesters : AcquireDec(t)
    \/ \E t \in Requesters, e \in TransportErrors : Transport(t, e)
    \/ \E t \in Requesters : Transport(t, "response")
    \/ \E t \in Requesters, h \in Headers : UpdateFromHeaders(t, h)
    \/ \E t \in Requesters, s \in Statuses : Classify(t, s)

SpecRequest == Init /\ [][NextRequest]_vars

\* One caller runs BaseAPI._request once, with every response in full.
NextExecutor ==
    \/ Tick
    \/ \E t \in Executors : Request(t)
    \/ \E t \in Executors : AcquireEnter(t)
    \/ \E t \in Executors : WakeRefill(t)
    \/ \E t \in Executors : AcquireDec(t)
    \/ \E t \in Executors, e \in TransportErrors : Transport(t, e)
    \/ \E t \in Executors, s \in Statuses : Receive(t, s)
    \/ \E t \in Executors, h \in Headers : UpdateFromHeaders(t, h)
    \/ \E t \in Executors, r \in Responses : Respond(t, r)

SpecExecutor == Init /\ [][NextExecutor]_vars

\* ------------------------------------- RateLimiter and AsyncRateLimiter
\* A limiter of either class as one caller sees it: its fields, where its
\* call stands ("sleep": inside acquire's sleep, until `wake`), and what
\* its last call returned or raised.  Each call is given as op, with the
\* headers h of update_from_headers, at the clock reading `clock`; "wake"
\* is the return of the sleep.

\* RateLimiter: acquire (35-43), try_acquire (45-57), update_from_headers
\* (67-84) and get_state (86-94), with _refill (59-65).
SyncStep(s, op, h, clock) ==
    LET r == [s EXCEPT !.tokens = Refilled(s.tokens, s.burst, s.rpm,
                                           clock - s.last_update),
                       !.last_update = clock]
        remOk == h.remaining = Absent \/ Parses(h.remaining)
        limOk == h.limit = Absent \/ Parses(h.limit)
    IN IF op \in {"acquire", "wake"}
       THEN IF MustWait(r.tokens)
            THEN [r EXCEPT !.pc = "sleep", !.wake = clock + SleepTime(r.rpm)]
            ELSE [r EXCEPT !.tokens = Decremented(@), !.pc = "idle",
                           !.wake = 0, !.result = None]
       ELSE IF op = "try_acquire"
       THEN IF MustWait(r.tokens)
            THEN [r EXCEPT !.result = "False"]
            ELSE [r EXCEPT !.tokens = Decremented(@), !.result = "True"]
       ELSE IF op = "update_from_headers"
       THEN [s EXCEPT
               !.tokens = IF remOk THEN TokensFromHeader(@, h.remaining)
                          ELSE @,
               !.burst = IF remOk /\ limOk THEN BurstFromHeader(@, h.limit)
                         ELSE @,
               !.result = IF HeadersOutcome(h) = "ok" THEN None
                          ELSE "ValueError"]
       ELSE [r EXCEPT !.result = "RateLimitState",
                      !.state = RateLimitState(r.tokens, r.burst,
                                               r.last_update, r.rpm)]

\* Mutant: the asynchronous refill is not capped at burst.
AsyncRefill_NoCap(a, clock) ==
    [a EXCEPT !.tokens = a.tokens + (clock - a.last_update) * a.rpm,
              !.last_update = clock]

\* AsyncRateLimiter._refill (138-144), in sixtieths.
AsyncRefill(a, clock) ==
    [a EXCEPT !.tokens = Min(TokenUnit * a.burst,
                             a.tokens + (clock - a.last_update) * a.rpm),
              !.last_update = clock]

\* AsyncRateLimiter: acquire (114-122), try_acquire (124-136),
\* update_from_headers (146-163) and get_state (165-173).
AsyncStep(a, op, h, clock) ==
    LET r == AsyncRefill(a, clock)
        a1 == IF h.remaining.kind = "int"
              THEN [a EXCEPT !.tokens = TokenUnit * h.remaining.val] ELSE a
    IN IF op \in {"acquire", "wake"}
       THEN IF r.tokens < TokenUnit
            THEN [r EXCEPT !.pc = "sleep",
                           !.wake = clock + TokenUnit \div r.rpm]
            ELSE [r EXCEPT !.tokens = @ - TokenUnit, !.pc = "idle",
                           !.wake = 0, !.result = None]
       ELSE IF op = "try_acquire"
       THEN IF r.tokens >= TokenUnit
            THEN [r EXCEPT !.tokens = @ - TokenUnit, !.result = "True"]
            ELSE [r EXCEPT !.result = "False"]
       ELSE IF op = "update_from_headers"
       THEN IF h.remaining.kind = "bad"
            THEN [a EXCEPT !.result = "ValueError"]
            ELSE IF h.limit.kind = "bad"
            THEN [a1 EXCEPT !.result = "ValueError"]
            ELSE IF h.limit.kind = "int"
            THEN [a1 EXCEPT !.burst = h.limit.val, !.result = None]
            ELSE [a1 EXCEPT !.result = None]
       ELSE [r EXCEPT !.result = "RateLimitState",
                      !.state = [remaining |-> r.tokens \div TokenUnit,
                                 reset_at |-> r.last_update
                                                + TokenUnit \div r.rpm,
                                 limit |-> r.burst, again |-> FALSE]]

\* RateLimiter(rate, cap) and AsyncRateLimiter(rate, cap) are constructed
\* at the same clock reading; n counts the calls made on both.
InitTwin ==
    /\ Construct /\ track = FALSE /\ rpm = 60 /\ burst = 1
    /\ NoPolling
    /\ pools = <<>> /\ sandbox = FALSE /\ requested = ""
    /\ pager = NoPager
    /\ twin \in
          {[sync |-> l, async |-> l, n |-> 0] :
             l \in {[rpm |-> rate, burst |-> cap, tokens |-> TokenUnit * cap,
                     last_update |-> now, pc |-> "idle", wake |-> 0,
                     result |-> None, state |-> NoState] :
                       rate \in Rpms, cap \in 0..MaxBurst}}

\* The caller makes the same call on both limiters at the clock reading
\* now, or (op = "wake") the sleep of a limiter inside acquire returns.
TwinOp(op, h) ==
    /\ op = "update_from_headers" \/ h = NoHeaders
    /\ IF op = "wake"
       THEN \/ twin.sync.pc = "sleep" /\ now >= twin.sync.wake
            \/ twin.async.pc = "sleep" /\ now >= twin.async.wake
       ELSE /\ twin.sync.pc = "idle" /\ twin.async.pc = "idle"
            /\ twin.n < MaxOps
    /\ twin' =
          [sync |-> IF op = "wake" /\ ~(twin.sync.pc = "sleep"
                                        /\ now >= twin.sync.wake)
                    THEN twin.sync ELSE SyncStep(twin.sync, op, h, now),
           async |-> IF op = "wake" /\ ~(twin.async.pc = "sleep"
                                         /\ now >= twin.async.wake)
                     THEN twin.async ELSE AsyncStep(twin.async, op, h, now),
           n |-> IF op = "wake" THEN twin.n ELSE twin.n + 1]
    /\ UNCHANGED <<now, reqVars, pollVars, clientVars, pager>>

NextTwin ==
    \/ Tick
    \/ \E op \in LimiterOps \cup {"wake"}, h \in Headers : TwinOp(op, h)

SpecTwin == InitTwin /\ [][NextTwin]_vars

\* ----------------------------------------------------------- pagination
\* The server's answer to a request for `limit` items after the first
\* `start` items of its collection.
Page(coll, start, limit) ==
    SubSeq(coll, start + 1, Min(start + limit, Len(coll)))

\* Mutant: only an empty page ends the iteration.
StopsAfter_EmptyOnly(page, batch_size) == page = <<>>

\* iter_goods_with_prices: `if not goods: break`, and after the yield
\* `if len(goods) < batch_size: break`.
StopsAfter(page, batch_size) == page = <<>> \/ Len(page) < batch_size

\* get_cards: `if updated_at and nm_id:` the cursor is put into the body.
CursorSent(updated_at, nm_id) == updated_at \notin {None, ""} /\ nm_id # 0

\* An iterator is created over a server collection of up to MaxItems items,
\* the item at position i having nmID i; iter_goods_with_prices begins with
\* offset = 0 and batch_size = min(batch_size, 1000), iter_cards with the
\* cursor None, None.
InitPages ==
    /\ Construct /\ track = FALSE /\ rpm = 60 /\ burst = 1
    /\ NoPolling
    /\ pools = <<>> /\ sandbox = FALSE /\ requested = ""
    /\ twin = NoTwin
    /\ pager \in
          {[NoPager EXCEPT !.fn = f, !.pc = "request", !.arg = b,
                           !.batch_size = IF f = "iter_goods_with_prices"
                                          THEN Min(b, GoodsLimit) ELSE b,
                           !.coll = [i \in 1..n |-> i]] :
             f \in {"iter_goods_with_prices", "iter_cards"},
             b \in (1..MaxBatch) \cup {GoodsLimit, GoodsLimit + 1},
             n \in 0..MaxItems}

\* iter_goods_with_prices, one turn of the loop: get_goods_with_prices(
\* limit = batch_size, offset = offset), which sends limit = min(limit,
\* 1000); the page is yielded; a page that is empty or short ends the
\* iteration, a full one moves the offset on by batch_size.
GoodsPage ==
    /\ pager.fn = "iter_goods_with_prices" /\ pager.pc = "request"
    /\ LET limit == Min(pager.batch_size, GoodsLimit)
           goods == Page(pager.coll, pager.offset, limit)
           stop == StopsAfter(goods, pager.batch_size)
       IN pager' = [pager EXCEPT
                      !.requests = Append(@, [limit |-> limit,
                                              offset |-> pager.offset,
                                              sent |-> FALSE,
                                              updated_at |-> None,
                                              nm_id |-> 0]),
                      !.yielded = @ \o goods,
                      !.pc = IF stop THEN "done" ELSE "request",
                      !.offset = IF stop THEN @ ELSE @ + pager.batch_size]
    /\ UNCHANGED <<now, reqVars, pollVars, clientVars, twin>>

\* iter_cards, one turn of the loop: get_cards(limit = batch_size,
\* updated_at, nm_id) sends the cursor only when both are truthy; the
\* server answers with the cards after the cursor's card (from the start
\* when the body has no cursor) and a cursor that holds their number as
\* total and, unless there are no cards or the server leaves them out
\* (`omit`: updatedAt and nmID are optional in Cursor), the updatedAt and
\* nmID of the last card.  The cards are yielded; total < batch_size ends
\* the iteration, otherwise the cursor's fields become the locals.  The
\* requests of one iteration are followed up to MaxItems + 2.
CardsPage(omit) ==
    /\ pager.fn = "iter_cards" /\ pager.pc = "request"
    /\ Len(pager.requests) < MaxItems + 2
    /\ LET sent == CursorSent(pager.updated_at, pager.nm_id)
           cards == Page(pager.coll, IF sent THEN pager.nm_id ELSE 0,
                         pager.batch_size)
           bare == cards = <<>> \/ omit
           stop == Len(cards) < pager.batch_size
       IN pager' = [pager EXCEPT
                      !.requests = Append(@, [limit |-> pager.batch_size,
                                              offset |-> 0,
                                              sent |-> sent,
                                              updated_at |-> pager.updated_at,
                                              nm_id |-> pager.nm_id]),
                      !.yielded = @ \o cards,
                      !.pc = IF stop THEN "done" ELSE "request",
                      !.updated_at = IF stop THEN @
                                     ELSE IF bare THEN None ELSE "updatedAt",
                      !.nm_id = IF stop THEN @
                                ELSE IF bare THEN 0 ELSE cards[Len(cards)]]
    /\ UNCHANGED <<now, reqVars, pollVars, clientVars, twin>>

NextPages ==
    \/ GoodsPage
    \/ \E omit \in BOOLEAN : CardsPage(omit)

\* The consumer takes every item: a running iterator takes its next turn.
SpecPages == InitPages /\ [][NextPages]_vars /\ WF_vars(NextPages)

\* ------------------------------------------------------- TaskPoller.wait
\* Time passes inside the two calls that block, check_fn and time.sleep;
\* the statements between them take no time.

\* Mutant: the time budget runs from the construction of the poller.
Wait_FromConstruction ==
    /\ pw.pc = "wait"
    /\ pw' = [pw EXCEPT !.pc = "top", !.start_time = 0,
                        !.current_interval = poller.interval]
    /\ UNCHANGED <<now, reqVars, clientVars, moreVars,
                   poller, task, waitResult, calls,
                   sleeps, terminalAt, via, progress, checkRaised>>

\* wait: start_time = time.monotonic(); current_interval = self.interval.
Wait ==
    /\ pw.pc = "wait"
    /\ pw' = [pw EXCEPT !.pc = "top", !.start_time = now,
                        !.current_interval = poller.interval]
    /\ UNCHANGED <<now, reqVars, clientVars, moreVars,
                   poller, task, waitResult, calls,
                   sleeps, terminalAt, via, progress, checkRaised>>

\* wait, top of the loop: elapsed is read and tested against the timeout.
TimeoutTest ==
    /\ pw.pc = "top"
    /\ LET elapsed == now - pw.start_time
       IN IF TimedOut(elapsed, poller.timeout)
          THEN /\ waitResult' = TaskTimeoutError(poller.task_id, elapsed)
               /\ pw' = [pw EXCEPT !.pc = "done", !.elapsed = elapsed]
          ELSE /\ pw' = [pw EXCEPT !.pc = "check", !.elapsed = elapsed]
               /\ UNCHANGED waitResult
    /\ UNCHANGED <<now, reqVars, clientVars, moreVars,
                   poller, task, calls, sleeps,
                   terminalAt, via, progress, checkRaised>>

\* The count of check_fn calls after one more call.  A wait that sleeps at
\* least a second between its calls makes at most one call per second of
\* its timeout; one that never sleeps makes calls without end while the
\* clock stands still, and its count stops at MaxCalls.
MaxCalls == MaxTimeout + 1
Counted(n) == Min(n + 1, MaxCalls)

\* wait: task = self.check_fn(self.task_id), which takes d ticks and
\* returns snap; on_progress, when given, is called with it; a completed
\* task ends the wait, by `return task` or by raising TaskFailedError.
Check(snap, d) ==
    /\ pw.pc = "check"
    /\ now' = now + d
    /\ task' = snap
    /\ calls' = Counted(calls)
    /\ terminalAt' = IF terminalAt = 0 /\ snap.status \in Terminal
                     THEN Counted(calls) ELSE terminalAt
    /\ progress' = OnProgress(progress, pw.on_progress, snap)
    /\ IF IsCompleted(snap.status)
       THEN /\ pw' = [pw EXCEPT !.pc = "done"]
            /\ waitResult' =
                  IF IsSuccessful(snap.status) THEN ReturnedTask(snap)
                  ELSE TaskFailedError(poller.task_id, snap.status,
                                       FailedErrors(snap))
       ELSE /\ pw' = [pw EXCEPT !.pc = "sleep"]
            /\ UNCHANGED waitResult
    /\ UNCHANGED <<reqVars, clientVars, moreVars,
                   poller, sleeps, via, checkRaised>>

\* wait: self.check_fn(self.task_id) raises e after d ticks; nothing in
\* wait catches it.
CheckRaises(e, d) ==
    /\ pw.pc = "check"
    /\ now' = now + d
    /\ calls' = Counted(calls)
    /\ checkRaised' = e
    /\ waitResult' = Propagated(poller.task_id, e)
    /\ pw' = [pw EXCEPT !.pc = "done"]
    /\ UNCHANGED <<reqVars, clientVars, moreVars,
                   poller, task, sleeps, terminalAt,
                   via, progress>>

\* wait: time.sleep(sleep_time) when sleep_time > 0, returning o ticks
\* late, then the backoff of current_interval.  The lateness is kept when
\* histories are recorded.
Sleep(o) ==
    /\ pw.pc = "sleep"
    /\ LET sleep_time == SleepFor(pw.current_interval, poller.max_interval,
                                  poller.timeout - pw.elapsed)
       IN /\ IF sleep_time > 0
             THEN /\ now' = now + sleep_time + o
                  /\ sleeps' = sleeps + 1
             ELSE /\ o = 0
                  /\ UNCHANGED <<now, sleeps>>
          /\ pw' = [pw EXCEPT !.pc = "top",
                              !.sleep_time = sleep_time,
                              !.late = IF track THEN o ELSE 0,
                              !.current_interval =
                                  Backoff(@, poller.backoff_factor)]
    /\ UNCHANGED <<reqVars, clientVars, moreVars,
                   poller, task, waitResult, calls,
                   terminalAt, via, progress, checkRaised>>

NextPoll ==
    \/ Wait
    \/ TimeoutTest
    \/ \E snap \in Snapshots, d \in Delays : Check(snap, d)
    \/ \E e \in CheckErrors, d \in Delays : CheckRaises(e, d)
    \/ \E o \in Delays : Sleep(o)

\* One thread runs wait() to its end: a running thread takes its next step.
SpecPoller == InitPoll /\ [][NextPoll]_vars /\ WF_vars(NextPoll)

\* The same wait of one manually built poller, called without on_progress:
\* the task id, the callback and the way the poller was built play no part
\* in when the wait ends.
InitWait ==
    /\ InitPoll
    /\ via = "TaskPoller.wait"
    /\ poller.task_id = "task-1"
    /\ ~pw.on_progress

SpecWait == InitWait /\ [][NextPoll]_vars /\ WF_vars(NextPoll)

\* The wait has ended; d ticks later wait() is called a second time on the
\* same poller.  The locals of the first call are gone, and what is kept
\* about a wait is kept about the second one from here on.
Recall(d) ==
    /\ pw.pc = "done"
    /\ ops = 0
    /\ ops' = 1
    /\ now' = now + d
    /\ pw' = [NotWaiting EXCEPT !.pc = "wait"]
    /\ task' = NoTask
    /\ waitResult' = Running
    /\ calls' = 0
    /\ sleeps' = 0
    /\ terminalAt' = 0
    /\ UNCHANGED <<limVars, th, last, histVars, clientVars, moreVars, poller,
                   via, progress, checkRaised>>

\* wait() is called twice on a poller with the default backoff.
InitRewait ==
    /\ InitWait
    /\ poller.backoff_factor = DefaultBackoffFactor
    /\ poller.max_interval = Seconds(DefaultMaxInterval)

NextRewait ==
    \/ NextPoll
    \/ \E d \in Delays : Recall(d)

SpecRewait == InitRewait /\ [][NextRewait]_vars

\* Pollers at the edges of the arguments __init__ accepts: an interval, a
\* backoff factor or a max_interval of 0 (at most one of them), with which
\* wait() stops sleeping or never sleeps; the factors keep current_interval
\* from growing.  The timeout is the shortest or the longest one.
EdgePollers ==
    {p \in {TaskPollerInit("task-1", t, v, f, m) :
               t \in {Seconds(1), Seconds(MaxTimeout)},
               v \in {0, Seconds(MaxInterval)},
               f \in {Ratio(0, 1), Ratio(1, 1)},
               m \in {0, Seconds(MaxInterval)}} :
       Cardinality({x \in {p.interval, p.backoff_factor.num,
                           p.max_interval} : x = 0}) <= 1}

\* wait() is about to be called on such a poller, without on_progress; the
\* lateness of its sleeps is recorded.
InitBudget ==
    /\ Construct /\ track = TRUE /\ rpm = 60 /\ burst = 1
    /\ NoClient
    /\ via = "TaskPoller.wait"
    /\ poller \in EdgePollers
    /\ pw = [NotWaiting EXCEPT !.pc = "wait"]
    /\ task = NoTask
    /\ waitResult = Running
    /\ calls = 0
    /\ sleeps = 0
    /\ terminalAt = 0
    /\ progress = NoProgress
    /\ checkRaised = ""

\* A check_fn call during which the clock advances.
TimedCheck == \E snap \in Snapshots, d \in Delays \ {0} : Check(snap, d)

\* One thread runs wait() to its end; every check_fn call returns, and the
\* clock does not stand still for ever: again and again a call of check_fn
\* takes time.
SpecBudget ==
    InitBudget /\ [][NextPoll]_vars /\ WF_vars(NextPoll) /\ SF_vars(TimedCheck)

\* ------------------------------------------------------ WildberriesClient
\* acquire() on limiter p of rate `rate` when a token is there: _refill()
\* with no time elapsed, then the decrement.
Acquired(p, rate) ==
    [p EXCEPT !.tokens = Decremented(Refilled(p.tokens, p.burst, rate, 0))]

\* update_from_headers(h) on limiter p.
Corrected(p, h) ==
    LET remOk == h.remaining = Absent \/ Parses(h.remaining)
        limOk == h.limit = Absent \/ Parses(h.limit)
    IN [tokens |-> IF remOk THEN TokensFromHeader(p.tokens, h.remaining)
                   ELSE p.tokens,
        burst  |-> IF remOk /\ limOk THEN BurstFromHeader(p.burst, h.limit)
                   ELSE p.burst]

\* A WildberriesClient has been constructed, in sandbox mode or not.
InitClient ==
    /\ Construct /\ track = FALSE /\ rpm = 60 /\ burst = 1
    /\ NoPolling
    /\ pools = NewPools
    /\ sandbox \in BOOLEAN
    /\ requested = ""
    /\ Unused

\* Module m of the client makes a request (BaseAPI._request) while its
\* limiter holds a token: acquire() on the limiter the client passed to m,
\* the transport call to m's host, and update_from_headers(h) on the same
\* limiter when a response arrives.
ClientRequest(m, outcome, h) ==
    /\ ops < MaxRequests
    /\ outcome = "response" \/ h = NoHeaders
    /\ LET c == ModuleLimiter(m)
           acquired == Acquired(pools[c], DefaultRpm(c))
       IN /\ ~MustWait(pools[c].tokens)
          /\ pools' = [pools EXCEPT
                         ![c] = IF AfterTransport(outcome) = "lock"
                                THEN Corrected(acquired, h)
                                ELSE acquired]
    /\ ops' = ops + 1
    /\ requested' = m
    /\ UNCHANGED <<now, limVars, th, last, histVars, pollVars, moreVars,
                   sandbox>>

NextClient ==
    \E m \in Modules, outcome \in {"response"} \cup TransportErrors,
       h \in Headers :
        ClientRequest(m, outcome, h)

SpecClient == InitClient /\ [][NextClient]_vars

\* ------------------------------------------- ReportsAPI._wait_for_task
\* _wait_for_task: start_time = time.time()
ReportsWait ==
    /\ pw.pc = "wait"
    /\ via \in ReportsWaits
    /\ pw' = [pw EXCEPT !.pc = "check", !.start_time = now]
    /\ UNCHANGED <<now, reqVars, clientVars, moreVars,
                   poller, task, waitResult, calls,
                   sleeps, terminalAt, via, progress, checkRaised>>

\* _wait_for_task: status = check_fn(task_id), which takes d ticks and
\* returns snap; `if status.is_completed: return status`.
ReportsCheck(snap, d) ==
    /\ pw.pc = "check"
    /\ via \in ReportsWaits
    /\ now' = now + d
    /\ task' = snap
    /\ calls' = calls + 1
    /\ terminalAt' = IF terminalAt = 0 /\ snap.status \in Terminal
                     THEN calls + 1 ELSE terminalAt
    /\ IF ReportIsCompleted(snap.status)
       THEN /\ pw' = [pw EXCEPT !.pc = "done"]
            /\ waitResult' = ReturnedTask(snap)
       ELSE /\ pw' = [pw EXCEPT !.pc = "top"]
            /\ UNCHANGED waitResult
    /\ UNCHANGED <<reqVars, clientVars, moreVars,
                   poller, sleeps, via, progress,
                   checkRaised>>

\* _wait_for_task: elapsed = time.time() - start_time;
\* `if elapsed >= timeout: raise TimeoutError(...)`.
ReportsTimeoutTest ==
    /\ pw.pc = "top"
    /\ via \in ReportsWaits
    /\ LET elapsed == now - pw.start_time
       IN IF TimedOut(elapsed, poller.timeout)
          THEN /\ waitResult' =
                    BuiltinTimeoutError(poller.task_id, poller.timeout,
                                        task.status)
               /\ pw' = [pw EXCEPT !.pc = "done", !.elapsed = elapsed]
          ELSE /\ pw' = [pw EXCEPT !.pc = "sleep", !.elapsed = elapsed]
               /\ UNCHANGED waitResult
    /\ UNCHANGED <<now, reqVars, clientVars, moreVars,
                   poller, task, calls, sleeps,
                   terminalAt, via, progress, checkRaised>>

\* _wait_for_task: sleep_time = min(interval, timeout - elapsed);
\* time.sleep(sleep_time) when it is > 0, returning o ticks late.
ReportsSleep(o) ==
    /\ pw.pc = "sleep"
    /\ via \in ReportsWaits
    /\ LET sleep_time == Min(poller.interval, poller.timeout - pw.elapsed)
       IN /\ IF sleep_time > 0
             THEN /\ now' = now + sleep_time + o
                  /\ sleeps' = sleeps + 1
             ELSE /\ o = 0
                  /\ UNCHANGED <<now, sleeps>>
          /\ pw' = [pw EXCEPT !.pc = "check", !.sleep_time = sleep_time]
    /\ UNCHANGED <<reqVars, clientVars, moreVars,
                   poller, task, waitResult, calls,
                   terminalAt, via, progress, checkRaised>>

NextReports ==
    \/ ReportsWait
    \/ ReportsTimeoutTest
    \/ \E snap \in ReportSnapshots, d \in Delays : ReportsCheck(snap, d)
    \/ \E o \in Delays : ReportsSleep(o)

SpecReports == InitReports /\ [][NextReports]_vars

\* ================================================================= claims
Granting(t) == th[t].pc \in {"dec", "try_dec"}

\* C1: under any interleaving of acquire() and try_acquire() callers, a
\* caller about to decrement is alone in the critical section and sees
\* tokens >= 1, so tokens never goes negative.
C1_GrantNeedsToken ==
    /\ tokens >= 0
    /\ \A t \in Threads :
         Granting(t) => /\ tokens >= TokenUnit
                        /\ lock = t
                        /\ \A u \in Threads \ {t} : ~Granting(u)

\* C1 witness: one caller is about to take the last token while another
\* caller of acquire/try_acquire waits at the lock.
C1_Witness ==
    \E t, u \in Threads :
        /\ t # u /\ Granting(t) /\ tokens = TokenUnit
        /\ th[u].pc = "lock" /\ th[u].fn \in {"acquire", "try_acquire"}

\* C2 (as claimed): in every reachable state 0 <= tokens <= capacity.
C2_TokensWithinCapacity == 0 <= tokens /\ tokens <= TokenUnit * burst

\* C3: with no header corrections, the grants of any interval number at most
\* burst + rpm * t / 60: any j - i + 1 consecutive grants, each dated by the
\* limiter's clock reading that admitted it (last_update at the decrement),
\* satisfy j - i + 1 <= burst + rpm * (grants[j] - grants[i]) / 60.
C3_RateBound ==
    \A i, j \in 1..Len(grants) :
        i <= j => TokenUnit * (j - i + 1)
                    <= TokenUnit * burst + rpm * (grants[j] - grants[i])

\* C3 witness: three grants over a positive interval that meet the bound
\* with equality.
C3_Witness ==
    /\ Len(grants) = 3
    /\ grants[3] > grants[1]
    /\ TokenUnit * 3 = TokenUnit * burst + rpm * (grants[3] - grants[1])

\* C4: a limiter nobody has called holds tokens == burst, and while no time
\* has elapsed and only try_acquire has been called, the k-th try_acquire
\* returned true exactly when k <= burst.
C4_FreshBurst ==
    /\ ops = 0 => tokens = TokenUnit * burst
    /\ fresh => \A k \in 1..Len(tryLog) : tryLog[k] <=> (k <= burst)

\* C4 witness: burst = 2 and a third try_acquire at time 0 has returned false.
C4_Witness ==
    fresh /\ burst = 2 /\ tryLog = <<TRUE, TRUE, FALSE>>

\* A try_acquire of caller t executes its refill-and-test in this step.
TryTests(t) ==
    /\ th[t].pc = "lock" /\ th[t].fn = "try_acquire"
    /\ th'[t].pc # "lock"

\* C5: capacity >= 1, the last grant left tokens < 1 and at least 60/rpm
\* seconds have elapsed since: the next try_acquire is granted.
C5_RefillAfterWait ==
    [][\A t \in Threads :
          (/\ TryTests(t)
           /\ burst >= 1
           /\ emptiedAt # <<>>
           /\ rpm * (now - emptiedAt[1]) >= TokenUnit)
          => th'[t].pc = "try_dec"]_vars

\* C5 witness: every token of the burst was granted, 60/rpm seconds passed,
\* and a try_acquire then returned true.
C5_Witness ==
    /\ burst >= 1
    /\ Len(grants) = burst + 1
    /\ grants[burst] = 0
    /\ rpm * (grants[burst + 1] - grants[burst]) = TokenUnit
    /\ last.op = "try_acquire" /\ last.result = "True"

\* update_from_headers is executed by caller t in this step.
HeaderStep(t) ==
    /\ th[t].pc = "lock" /\ th[t].fn = "update_from_headers"
    /\ th'[t].pc # "lock"

\* C6: update_from_headers with well-formed headers leaves tokens == r when
\* remaining = r is present and capacity == l when limit = l is present, and
\* leaves the field of an absent header unchanged.
C6_HeadersAssign ==
    [][\A t \in Threads :
          HeaderStep(t) =>
            \A h \in Headers :
              (/\ h.remaining.kind # "bad" /\ h.limit.kind # "bad"
               /\ UpdateFromHeaders(t, h))
              => /\ tokens' = IF h.remaining.kind = "int"
                              THEN TokenUnit * h.remaining.val ELSE tokens
                 /\ burst' = IF h.limit.kind = "int"
                             THEN h.limit.val ELSE burst]_vars

\* C6 witness: a header correction has returned and left one token in a
\* limiter of capacity 0, which only remaining = 1, limit = 0 produces.
C6_Witness ==
    /\ last.op = "update_from_headers" /\ last.hdrDone
    /\ tokens = TokenUnit /\ burst = 0

\* A grant is completed by caller t in this step.
GrantStep(t) == Granting(t) /\ ~Granting(t)'

\* C7 (as claimed): every step that lowers tokens is a grant and lowers it
\* by exactly one token.
C7_OnlyGrantsLower ==
    [][tokens' < tokens =>
          /\ \E t \in Threads : GrantStep(t)
          /\ tokens' = tokens - TokenUnit]_vars

\* C7 (amended): a step that lowers tokens is a grant lowering it by exactly
\* one token, or a header correction, or a refill that clamps a token count
\* above the capacity down to the capacity.
C7_LoweringSteps ==
    [][tokens' < tokens =>
          \/ /\ \E t \in Threads : GrantStep(t)
             /\ tokens' = tokens - TokenUnit
          \/ \E t \in Threads : HeaderStep(t)
          \/ /\ tokens > TokenUnit * burst
             /\ tokens' = TokenUnit * burst
             /\ last_update' = now]_vars

\* C7 witness: the only call so far is a header correction, and it lowered
\* the tokens of a limiter constructed with burst = MaxBurst to 0.
C7_Witness ==
    /\ ops = 1 /\ last.op = "update_from_headers" /\ last.hdrDone
    /\ burst = MaxBurst /\ tokens = 0

\* C8 (as claimed): try_acquire never waits; in particular no try_acquire
\* caller stands at the lock while its holder sleeps inside acquire().
C8_TryAcquireNeverWaits ==
    \A t, u \in Threads :
        ~(/\ th[t].pc = "lock" /\ th[t].fn = "try_acquire"
          /\ lock = u /\ th[u].pc = "sleep")

C10_HeadersBeforeClassify ==
    /\ \A t \in Threads : th[t].pc = "classify" => th[t].hdrDone
    /\ (last.op = "_request" /\ last.status # 0) => last.hdrDone

\* C10 witness: a _request ended with the error of a 429 response, after
\* its header correction.
C10_Witness ==
    /\ last.op = "_request" /\ last.status = 429
    /\ last.result = "WBRateLimitError" /\ last.hdrDone

\* A _request call has ended, by returning or by raising.
Ended == last.op = "_request" /\ last.pc = "done"
\* A _request call has ended in _handle_response with a non-success status.
EndedNonSuccess ==
    Ended /\ last.resp # NoResponse /\ ~IsSuccess(last.resp.status)

\* C11: every _request call that does not return a result raises WBAPIError
\* or one of its subclasses, whatever the transport outcome, the status,
\* the rate-limit headers and the error body are.
C11_RaisesTaxonomy ==
    (Ended /\ last.result # "ok") => last.result \in Taxonomy

\* C12: a non-success response raises the error its status determines
\* (400 Validation, 401 Auth, 403 Forbidden, 404 NotFound, 429 RateLimit,
\* >= 500 Server, else the generic error), carrying that status code.
C12_StatusDeterminesError ==
    EndedNonSuccess =>
        LET status == last.resp.status
        IN /\ last.result =
                CASE status = 400 -> "WBValidationError"
                  [] status = 401 -> "WBAuthError"
                  [] status = 403 -> "WBForbiddenError"
                  [] status = 404 -> "WBNotFoundError"
                  [] status = 429 -> "WBRateLimitError"
                  [] status >= 500 -> "WBServerError"
                  [] OTHER -> "WBAPIError"
           /\ last.exc.status_code = status

\* C13: a 429 response raises WBRateLimitError whose retry_after is the
\* retry header's value when it is present and parses, and the fallback
\* when the header is absent or malformed.
C13_RetryAfter ==
    (Ended /\ last.resp.status = 429) =>
        /\ last.result = "WBRateLimitError"
        /\ last.exc.retry_after =
               <<IF Parses(last.resp.retry) THEN last.resp.retry.val
                 ELSE RetryFallback>>

\* C14: the message of the error raised for a non-success response is the
\* first populated of detail, message, error of the decoded body, else the
\* string rendering of the body; a body that does not decode is wrapped as
\* the detail of an object first.
C14_ErrorMessage ==
    EndedNonSuccess =>
        LET body == last.resp.body
            d == IF body.json.kind = "undecodable"
                 THEN [kind |-> "object", detail |-> body.text,
                       message |-> "", error |-> ""]
                 ELSE body.json
        IN /\ last.result \in Taxonomy
           /\ last.exc.message =
                IF d.detail # "" THEN d.detail
                ELSE IF d.message # "" THEN d.message
                ELSE IF d.error # "" THEN d.error
                ELSE Str(d)

\* C15: a _request call that received a 2xx response raises nothing: it
\* returns None for 204, else the decoded body, else the body's text.
C15_SuccessReturns ==
    (Ended /\ IsSuccess(last.status)) =>
        /\ last.result = "ok"
        /\ last.exc.value =
               IF last.status = 204 THEN PyNone
               ELSE IF last.resp.body.json.kind # "undecodable"
                    THEN JsonValue(last.resp.body.json)
               ELSE TextValue(last.resp.body.text)

\* C16: while a caller is at the transport call nothing changes the
\* limiter, and a transport timeout or connect failure ends the call with
\* WBTimeoutError or WBConnectionError carrying no status code and no
\* body, after one grant and without any header correction.
C16_TransportFailure ==
    [][\A t \in Executors :
          th[t].pc = "transport" =>
              /\ UNCHANGED limVars
              /\ \A e \in {"TimeoutException", "ConnectError"} :
                    Transport(t, e) =>
                        /\ last'.result = IF e = "TimeoutException"
                                          THEN "WBTimeoutError"
                                          ELSE "WBConnectionError"
                        /\ last'.exc.status_code = NoStatus
                        /\ last'.exc.response = NoData
                        /\ last'.nGrant = 1
                        /\ ~last'.hdrDone]_vars

C16_Witness ==
    /\ Ended /\ last.result = "WBTimeoutError"
    /\ tokens = TokenUnit * burst - TokenUnit
    /\ ~last.hdrDone

\* C17: when check_fn returns a terminal-success status on call N (after
\* non-terminal ones), wait returns the snapshot of call N and check_fn has
\* been called N times: no call follows the terminal one.
C17_ReturnsTerminalSnapshot ==
    (terminalAt # 0 /\ task.status \in SuccessStatuses) =>
        /\ pw.pc = "done"
        /\ waitResult.kind = "return"
        /\ waitResult.value = task
        /\ calls = terminalAt

C17_Witness ==
    /\ waitResult.kind = "return"
    /\ calls = 3

\* C18: a wait whose check_fn never returns a terminal status (and never
\* raises) ends by raising TaskTimeoutError; it is raised only when the elapsed time is
\* >= the timeout, and the elapsed time it reports is >= the timeout.
C18_TimesOut ==
    /\ [](waitResult.kind = "TaskTimeoutError" =>
            /\ now - pw.start_time >= poller.timeout
            /\ waitResult.timeout >= poller.timeout)
    /\ []((pw.pc = "done" /\ terminalAt = 0 /\ checkRaised = "") =>
            waitResult.kind = "TaskTimeoutError")
    /\ <>(\/ terminalAt # 0
          \/ checkRaised # ""
          \/ waitResult.kind = "TaskTimeoutError")

C18_Witness ==
    /\ waitResult.kind = "TaskTimeoutError"
    /\ terminalAt = 0
    /\ calls >= 2
    /\ waitResult.timeout > poller.timeout

\* C19: when check_fn returns a terminal-failure status, wait raises
\* TaskFailedError with the poller's task id, that status and the
\* snapshot's error records in their order, and makes no further check_fn
\* or sleep call.
C19_FailedCarriesSnapshot ==
    (terminalAt # 0 /\ task.status \in FailureStatuses) =>
        /\ pw.pc = "done"
        /\ waitResult.kind = "TaskFailedError"
        /\ waitResult.task_id = poller.task_id
        /\ waitResult.status = task.status
        /\ waitResult.errors = task.errors
        /\ calls = terminalAt
        /\ sleeps = terminalAt - 1

C19_Witness ==
    /\ waitResult.kind = "TaskFailedError"
    /\ waitResult.errors = <<"e2", "e1">>
    /\ task.errors_count = 0
    /\ calls = 2

\* C20: every check_fn call is made right after a timeout test that read
\* an elapsed time below the timeout, with that much time elapsed; a test
\* that reads elapsed >= timeout raises TaskTimeoutError and no call is
\* made.
C20_TestBeforeCheck ==
    [][/\ calls' # calls =>
            /\ pw.pc = "check"
            /\ pw.elapsed < poller.timeout
            /\ now - pw.start_time = pw.elapsed
       /\ (pw.pc = "top" /\ now - pw.start_time >= poller.timeout) =>
            /\ waitResult'.kind = "TaskTimeoutError"
            /\ calls' = calls]_vars

C20_Witness ==
    /\ waitResult.kind = "TaskTimeoutError"
    /\ calls >= 1
    /\ pw.elapsed = poller.timeout

\* C21: every wait() calls check_fn at least once before it can raise
\* TaskTimeoutError, whatever the timeout (0 included).
C21_FirstTickExecutes ==
    waitResult.kind = "TaskTimeoutError" => calls >= 1

\* C22: the k-th sleep follows the k-th non-terminal tick and is asked to
\* last min(interval * backoff_factor^(k-1), max_interval, remaining),
\* remaining being the timeout less the elapsed time the tick read; it
\* lasts at least that long, never exceeds max_interval, and
\* current_interval is multiplied by backoff_factor after it.
C22_SleepLength ==
    [][sleeps' # sleeps =>
         LET k == calls
             f == poller.backoff_factor
             D == Pow(f.den, k - 1)
             remaining == poller.timeout - pw.elapsed
         IN /\ sleeps' = k
            /\ ~IsCompleted(task.status)
            /\ pw'.sleep_time * D =
                  Min(Min(poller.interval * Pow(f.num, k - 1),
                          poller.max_interval * D),
                      remaining * D)
            /\ pw'.sleep_time <= poller.max_interval
            /\ pw'.sleep_time > 0
            /\ now' - now >= pw'.sleep_time
            /\ pw'.current_interval * f.den = pw.current_interval * f.num
            /\ pw.current_interval * D = poller.interval * Pow(f.num, k - 1)
      ]_vars

\* The second sleep of a poller with factor 1.5 lasted 1.5 s, and a third
\* tick followed.
C22_Witness ==
    /\ sleeps = 2
    /\ calls = 3
    /\ poller.backoff_factor = DefaultBackoffFactor
    /\ poller.interval = Seconds(1)
    /\ 2 * pw.sleep_time = Seconds(3)

\* C23: when a sleep of the poll loop ends (on time), the time elapsed
\* since the poll began is <= the timeout, however long check_fn took.
C23_NoOvershoot ==
    [][(sleeps' # sleeps /\ now' = now + pw'.sleep_time) =>
           now' - pw.start_time <= poller.timeout]_vars

\* C24: with on_progress given, every check_fn call that returns a
\* snapshot, terminal or not, is followed by exactly one on_progress call
\* with that snapshot, and no other step calls it: the number of
\* on_progress calls equals the number of check_fn calls that returned.
C24_ProgressPerTick ==
    /\ [](pw.on_progress =>
            /\ progress.n = IF checkRaised = "" THEN calls ELSE calls - 1
            /\ progress.n > 0 => progress.last = task)
    /\ [][/\ (pw.on_progress /\ calls' # calls /\ checkRaised' = "") =>
               progress' = [n |-> progress.n + 1, last |-> task']
          /\ (calls' = calls \/ checkRaised' # "") =>
               progress' = progress]_vars

\* on_progress was called for a non-terminal tick and for the terminal one.
C24_Witness ==
    /\ pw.on_progress
    /\ progress.n = 2
    /\ calls = 2
    /\ waitResult.kind = "TaskFailedError"
    /\ progress.last.status = waitResult.status

\* C25: wait_for_task(check_fn, task_id, timeout, interval, on_progress)
\* runs the wait of the poller TaskPoller(check_fn, task_id, timeout,
\* interval, backoff_factor = 1.5, max_interval = 30): its sleeps are the
\* ones that poller makes.
C25_OneShotIsDefaultPoller ==
    /\ [](via = "wait_for_task" =>
            poller = TaskPollerInit(poller.task_id, poller.timeout,
                                    poller.interval, Ratio(3, 2),
                                    Seconds(30)))
    /\ [][(via = "wait_for_task" /\ sleeps' # sleeps) =>
            /\ pw'.sleep_time =
                  Min(Min(pw.current_interval, Seconds(30)),
                      poller.timeout - pw.elapsed)
            /\ 2 * pw'.current_interval = 3 * pw.current_interval]_vars

\* A one-shot wait slept twice, the second time for 1.5 s, and returned.
C25_Witness ==
    /\ via = "wait_for_task"
    /\ sleeps = 2
    /\ 2 * pw.sleep_time = Seconds(3)
    /\ waitResult.kind = "return"

\* C27: a PricesAPI.wait_for_task that times out raises
\* WBTaskTimeoutError, one whose task failed raises WBTaskFailedError:
\* both are WBAPIErrors.
C27_WaitErrorsInTaxonomy ==
    (/\ via = "PricesAPI.wait_for_task"
     /\ pw.pc = "done"
     /\ checkRaised = ""
     /\ waitResult.kind # "return") =>
        /\ waitResult.kind \in {"WBTaskTimeoutError", "WBTaskFailedError"}
        /\ waitResult.kind \in Taxonomy

\* C28: when check_fn raises, wait ends with that error as it is:
\* on_progress is not called for that tick, no sleep and no check_fn call
\* follows, and the error is neither TaskTimeoutError nor TaskFailedError.
C28_CheckErrorPropagates ==
    checkRaised # "" =>
        /\ pw.pc = "done"
        /\ waitResult = [Running EXCEPT !.kind = checkRaised]
        /\ waitResult.kind \notin {"TaskTimeoutError", "TaskFailedError"}
        /\ sleeps = calls - 1
        /\ progress.n = IF pw.on_progress THEN calls - 1 ELSE 0

\* check_fn raised on its second call, with on_progress given.
C28_Witness ==
    /\ checkRaised = "KeyError"
    /\ calls = 2
    /\ pw.on_progress
    /\ waitResult.kind = "KeyError"

\* The snapshot check_fn returned last reports a failed task.
ReportedFailed ==
    IF via \in ReportsWaits THEN ReportIsFailed(task.status)
    ELSE task.status \in FailureStatuses

\* C26: in every wait operation, a wait that has ended after its task
\* reported a terminal-failure status has ended with a task-failed error,
\* never with a timeout.
C26_FailedIsNotTimeout ==
    (pw.pc = "done" /\ checkRaised = "" /\ ReportedFailed) =>
        /\ waitResult.kind \in {"TaskFailedError", "WBTaskFailedError"}
        /\ waitResult.kind \notin {"TimeoutError", "TaskTimeoutError",
                                    "WBTaskTimeoutError"}

\* Caller t runs get_state in this step.
StateStep(t) ==
    /\ th[t].fn = "get_state"
    /\ th[t].pc = "lock"
    /\ th'[t].pc = "idle"

\* C29: get_state returns remaining = the integer part of the refilled
\* token count and limit = the capacity, leaves the tokens at the refilled
\* count (none is consumed) and the capacity as it is; called again with
\* no call and no time in between, it returns the same remaining, limit
\* and reset_at and changes nothing.
C29_GetStateIdempotent ==
    [][\A t \in Threads : StateStep(t) =>
          LET refilled == Refilled(tokens, burst, rpm, now - last_update)
          IN /\ last'.state.remaining = refilled \div TokenUnit
             /\ last'.state.remaining * TokenUnit <= refilled
             /\ refilled < (last'.state.remaining + 1) * TokenUnit
             /\ last'.state.limit = burst
             /\ tokens' = refilled
             /\ burst' = burst
             /\ SameInstant(last, now, rpm) =>
                   /\ last'.state.again
                   /\ last'.state.remaining = last.state.remaining
                   /\ last'.state.limit = last.state.limit
                   /\ last'.state.reset_at = last.state.reset_at
                   /\ tokens' = tokens]_vars

\* A second get_state at the same instant, with part of a token in the
\* bucket and a capacity that a header has corrected.
C29_Witness ==
    /\ last.fn = "get_state"
    /\ last.state.again
    /\ tokens > last.state.remaining * TokenUnit
    /\ last.state.limit # last.state.remaining
    /\ now > 0

\* C30: a request of a module, sent to a host of category c, takes its
\* token from the limiter of c and applies the response's headers to it,
\* and leaves the limiter of every other category as it was.
C30_OwnCategoryLimiter ==
    [][ops' # ops =>
          LET c == HostCategory(ModuleDomain(requested', sandbox))
              acquired == Acquired(pools[c], DefaultRpm(c))
          IN /\ \/ pools'[c] = acquired
                \/ \E h \in Headers : pools'[c] = Corrected(acquired, h)
             /\ \A k \in Categories \ {c} : pools'[k] = pools[k]]_vars

\* C37: update_from_headers is all-or-nothing: a call that ends with a
\* parse failure has changed neither the tokens nor the capacity.
C37_AllOrNothing ==
    [][\A t \in Threads :
          (HeaderStep(t) /\ last'.result = "ValueError")
            => (tokens' = tokens /\ burst' = burst)]_vars

\* C31: every acquire() eventually returns as time advances, whatever state
\* the limiter is in: a caller suspended in acquire is only waiting for the
\* refill, so the refill made when its sleep is over leaves a whole token
\* and the loop ends.
C31_AcquireReturns ==
    \A t \in Threads :
      th[t].pc = "sleep"
        => ~MustWait(Refilled(tokens, burst, rpm, th[t].wake - last_update))

C36_CorrectionBoundsTokens ==
    (/\ last.fn = "update_from_headers" /\ last.corr.set
     /\ \A t \in Threads : th[t].pc \in {"idle", "lock"})
      => Refilled(tokens, burst, rpm, now - last_update)
           <= TokenUnit * last.corr.r + rpm * (now - last.corr.at)

\* C32: every task status is exactly one of non-terminal (pending,
\* in_progress, processing: is_completed false), terminal-success
\* (completed, done, success: is_completed and is_successful) and
\* terminal-failure (error, failed, cancelled: is_completed and not
\* is_successful); is_successful implies is_completed.
C32_StatusClasses ==
    task # NoTask =>
      LET s == task.status
          completed == IsCompleted(s)
          successful == IsSuccessful(s)
      IN /\ successful => completed
         /\ (completed /\ successful) <=> s \in {"completed", "done", "success"}
         /\ (completed /\ ~successful) <=> s \in {"error", "failed", "cancelled"}
         /\ ~completed <=> s \in {"pending", "in_progress", "processing"}

\* C32 witness: a check returned a cancelled task and the wait raised for it.
C32_Witness == task.status = "cancelled" /\ waitResult.kind = "TaskFailedError"

\* The step in which wait() returns or raises.
WaitEnds == pw.pc # "done" /\ pw'.pc = "done"

\* The duration of the last check_fn call before the step that ends the
\* wait: the call that ends it, or what remains of the time since the last
\* reading of elapsed after the sleep and its lateness (0 before any call).
LastCheckTime ==
    IF pw.pc = "check" THEN now' - now
    ELSE now - pw.start_time - pw.elapsed - pw.sleep_time - pw.late

\* By how much the sleep before the step that ends the wait returned late.
LastSleepLate == IF pw.pc = "top" THEN pw.late ELSE 0

C33_BudgetFromCall ==
    /\ [][poller' = poller]_vars
    /\ [][(pw.pc = "wait" /\ pw'.pc = "top")
            => (pw'.start_time = now /\ pw'.current_interval = poller.interval)]_vars
    /\ []((sleeps = 0 /\ pw.pc \in {"top", "check", "sleep"})
            => pw.current_interval = poller.interval)
    /\ [](pw.pc = "check" => now - pw.start_time < poller.timeout)
    /\ []((pw.pc = "done" /\ waitResult.kind = "TaskTimeoutError")
            => now - pw.start_time >= poller.timeout)

\* C33 witness: the second wait() on a poller, called after its construction
\* and after a first wait that backed off, has backed off and timed out.
C33_Witness ==
    /\ ops = 1 /\ pw.pc = "done" /\ waitResult.kind = "TaskTimeoutError"
    /\ pw.start_time > Seconds(1) /\ sleeps >= 2
    /\ poller.timeout > 0

\* C38: iter_goods_with_prices, with b = min(batch_size, 1000), requests the
\* pages at offsets 0, b, 2b, ... in order with limit b, yields every item
\* of every fetched page once and in page order, makes no request after the
\* first page that is empty or holds fewer than b items (every page before
\* the last requested one was full, and the iteration has ended once the
\* last one is not), and ends for every finite collection, having yielded
\* the whole collection.
C38_OffsetPagination ==
    /\ [](pager.fn = "iter_goods_with_prices" =>
            LET b == Min(pager.arg, GoodsLimit)
                n == Len(pager.requests)
                Fetched(i) == Page(pager.coll, (i - 1) * b, b)
            IN /\ \A i \in 1..n :
                    /\ pager.requests[i].offset = (i - 1) * b
                    /\ pager.requests[i].limit = b
               /\ \A i \in 1..(n - 1) : Len(Fetched(i)) = b
               /\ (n > 0 /\ Len(Fetched(n)) < b) => pager.pc = "done"
               /\ pager.yielded = SubSeq(pager.coll, 1, Len(pager.yielded))
               /\ Len(pager.yielded) = Min(n * b, Len(pager.coll))
               /\ pager.pc = "done" => pager.yielded = pager.coll)
    /\ <>(pager.fn = "iter_goods_with_prices" => pager.pc = "done")

\* C38 witness: an iteration over three items with batch_size 2 has ended
\* after a full page and a short one.
C38_Witness ==
    /\ pager.fn = "iter_goods_with_prices" /\ pager.pc = "done"
    /\ pager.arg = 2 /\ Len(pager.requests) = 2 /\ Len(pager.yielded) = 3

\* C39: in iter_cards every request after the first carries the cursor the
\* previous page returned, and no page is requested twice (the iteration
\* then ends after the first page whose total is below batch_size).
C39_CursorAdvances ==
    pager.fn = "iter_cards" =>
      LET n == Len(pager.requests)
          Body(i) == [sent |-> pager.requests[i].sent,
                      nm_id |-> IF pager.requests[i].sent
                                THEN pager.requests[i].nm_id ELSE 0]
      IN /\ \A i \in 2..n : pager.requests[i].sent
         /\ \A i, j \in 1..n : i < j => Body(i) # Body(j)

\* C40: a RateLimiter and an AsyncRateLimiter built with the same arguments
\* and given the same acquire, try_acquire, update_from_headers and get_state
\* calls at the same clock readings hold the same tokens, capacity and last
\* refill time in every state, wait at the same points for the same time,
\* and return the same results.
C40_SyncAsyncEquivalent == twin # NoTwin => twin.sync = twin.async

\* C40 witness: three calls were made on both limiters built with rpm 30,
\* the last a get_state at time 3 that found less than one token.
C40_Witness ==
    /\ twin # NoTwin /\ twin.n = 3
    /\ twin.async.result = "RateLimitState"
    /\ twin.async.wake = 0 /\ twin.async.last_update > 0
    /\ twin.async.tokens < TokenUnit /\ twin.async.burst = 1
    /\ twin.sync.rpm = 30 /\ now = 3

====
